---- MODULE Spec2Model ----
(***************************************************************************)
(* Secure Vault (src/script.js): a client-side vault whose entries are     *)
(* kept AES-GCM encrypted in localStorage under a PBKDF2 password key.     *)
(*                                                                         *)
(* Conventions of the model                                                *)
(*   - a JavaScript string is a sequence of one-character strings;         *)
(*   - a byte array is a sequence of numbers in 0..255;                    *)
(*   - null is the empty tuple <<>>, a present value x is <<x>>            *)
(*     (localStorage.getItem results, vault.cryptoKey, vault.salt);        *)
(*   - a thrown exception is a result record with ok = FALSE;              *)
(*   - one action is one event-loop task: an event handler up to its first *)
(*     suspension on a Web Crypto promise, or the continuation that runs   *)
(*     when such a promise settles (with all the microtasks it triggers).  *)
(***************************************************************************)
EXTENDS Integers, Sequences, FiniteSets, TLC

(***************************************************************************)
(* Bound of the model (not a program constant).                            *)
(***************************************************************************)
\* operations started over a run that suspend on a Web Crypto promise:
\* handleUnlock calls that reach deriveKey, and addEntry / deleteEntry calls
\* that reach saveVaultData
MaxOps == 4

(***************************************************************************)
(* Program constants.                                                      *)
(***************************************************************************)
IV_LENGTH == 12
SALT_LENGTH == 16

Null == <<>>
Some(x) == <<x>>
IsNull(v) == v = Null
Get(v) == v[1]

(***************************************************************************)
(* Strings.                                                                *)
(***************************************************************************)
\* String.prototype.trim on the strings of the model: the only white space
\* character of the alphabet is the space.
IsSpace(c) == c = " "

RECURSIVE TrimStart(_)
TrimStart(s) ==
  IF s = <<>> THEN <<>>
  ELSE IF IsSpace(Head(s)) THEN TrimStart(Tail(s))
  ELSE s

RECURSIVE TrimEnd(_)
TrimEnd(s) ==
  IF s = <<>> THEN <<>>
  ELSE IF IsSpace(s[Len(s)]) THEN TrimEnd(SubSeq(s, 1, Len(s) - 1))
  ELSE s

Trim(s) == TrimEnd(TrimStart(s))

\* mutant of Falsy: nothing is falsy
FalsyMut(s) == FALSE

\* JavaScript's !s for a string s (or null): true exactly for "" and null.
Falsy(s) == s = <<>>

(***************************************************************************)
(* Characters and UTF-8 (encodeUTF8 / decodeUTF8).                         *)
(* A character is a one-character TLA+ string for printable ASCII, and the *)
(* name "U+0060" for the grave accent and "U+00E9" / "U+FFFD" for the two  *)
(* non-ASCII characters of the model.                                      *)
(***************************************************************************)
Ascii ==
  <<
     " ", "!", "\"", "#", "$", "%", "&", "'", "(", ")", "*", "+",
     ",", "-", ".", "/", "0", "1", "2", "3", "4", "5", "6", "7",
     "8", "9", ":", ";", "<", "=", ">", "?", "@", "A", "B", "C",
     "D", "E", "F", "G", "H", "I", "J", "K", "L", "M", "N", "O",
     "P", "Q", "R", "S", "T", "U", "V", "W", "X", "Y", "Z", "[",
     "\\", "]", "^", "_", "U+0060", "a", "b", "c", "d", "e", "f", "g",
     "h", "i", "j", "k", "l", "m", "n", "o", "p", "q", "r", "s",
     "t", "u", "v", "w", "x", "y", "z", "{", "|", "}", "~"
  >>

CodePoint(c) ==
  IF c = "U+00E9" THEN 233
  ELSE IF c = "U+FFFD" THEN 65533
  ELSE 31 + (CHOOSE i \in 1..Len(Ascii) : Ascii[i] = c)

CharOf(cp) ==
  IF cp = 233 THEN "U+00E9"
  ELSE IF cp >= 32 /\ cp <= 126 THEN Ascii[cp - 31]
  ELSE "U+FFFD"

\* TextEncoder.encode of one character
Utf8OfChar(c) ==
  LET cp == CodePoint(c) IN
    IF cp < 128 THEN <<cp>>
    ELSE IF cp < 2048 THEN <<192 + (cp \div 64), 128 + (cp % 64)>>
    ELSE <<224 + (cp \div 4096), 128 + ((cp \div 64) % 64), 128 + (cp % 64)>>

\* the bytes of the characters lo..hi of str (split in halves, so that the
\* evaluation depth is logarithmic in the length)
RECURSIVE Utf8Range(_, _, _)
Utf8Range(str, lo, hi) ==
  IF lo > hi THEN <<>>
  ELSE IF lo = hi THEN Utf8OfChar(str[lo])
  ELSE LET mid == (lo + hi) \div 2 IN
    Utf8Range(str, lo, mid) \o Utf8Range(str, mid + 1, hi)

encodeUTF8(str) == Utf8Range(str, 1, Len(str))

IsCont(b) == b >= 128 /\ b < 192

\* TextDecoder.decode (non-fatal): what the byte at index i contributes.
\* A lead byte followed by its continuation bytes gives their character, a
\* continuation byte consumed by such a lead gives nothing, any other byte
\* of an ill-formed sequence gives U+FFFD.
Lead2(buffer, i) ==
  /\ i >= 1 /\ i + 1 <= Len(buffer)
  /\ buffer[i] >= 194 /\ buffer[i] < 224
  /\ IsCont(buffer[i + 1])

Lead3(buffer, i) ==
  /\ i >= 1 /\ i + 2 <= Len(buffer)
  /\ buffer[i] >= 224 /\ buffer[i] < 240
  /\ IsCont(buffer[i + 1]) /\ IsCont(buffer[i + 2])
  /\ (buffer[i] = 224 => buffer[i + 1] >= 160)

DecodeAt(buffer, i) ==
  LET b == buffer[i] IN
    IF b < 128 THEN <<CharOf(b)>>
    ELSE IF Lead2(buffer, i)
      THEN <<CharOf((b - 192) * 64 + (buffer[i + 1] - 128))>>
    ELSE IF Lead3(buffer, i)
      THEN <<CharOf((b - 224) * 4096 + (buffer[i + 1] - 128) * 64
                    + (buffer[i + 2] - 128))>>
    ELSE IF IsCont(b) /\ (Lead2(buffer, i - 1) \/ Lead3(buffer, i - 1)
                           \/ Lead3(buffer, i - 2))
      THEN <<>>
    ELSE <<"U+FFFD">>

RECURSIVE DecodeRange(_, _, _)
DecodeRange(buffer, lo, hi) ==
  IF lo > hi THEN <<>>
  ELSE IF lo = hi THEN DecodeAt(buffer, lo)
  ELSE LET mid == (lo + hi) \div 2 IN
    DecodeRange(buffer, lo, mid) \o DecodeRange(buffer, mid + 1, hi)

decodeUTF8(buffer) == DecodeRange(buffer, 1, Len(buffer))

(***************************************************************************)
(* JavaScript values that JSON can carry.  A value is a record             *)
(* [t |-> kind, v |-> payload]: "str" with its characters, "arr" with its  *)
(* elements, "obj" with its members [k |-> key, v |-> value] in insertion  *)
(* order, "null" with nothing.                                             *)
(***************************************************************************)
JsStr(chars) == [t |-> "str", v |-> chars]
JsArr(elems) == [t |-> "arr", v |-> elems]
JsObj(members) == [t |-> "obj", v |-> members]
JsNull == [t |-> "null", v |-> <<>>]
Member(key, val) == [k |-> key, v |-> val]

IsArray(x) == x.t = "arr"

K_id == <<"i", "d">>
K_title == <<"t", "i", "t", "l", "e">>
K_content == <<"c", "o", "n", "t", "e", "n", "t">>

\* the object literal { id, title, content } of addEntry
Entry(id, title, content) ==
  JsObj(<< Member(K_id, JsStr(id)),
           Member(K_title, JsStr(title)),
           Member(K_content, JsStr(content)) >>)

\* property read e.k of an object (undefined is rendered as JsNull)
RECURSIVE Lookup(_, _)
Lookup(members, key) ==
  IF members = <<>> THEN JsNull
  ELSE IF members[Len(members)].k = key THEN members[Len(members)].v
  ELSE Lookup(SubSeq(members, 1, Len(members) - 1), key)

Prop(x, key) == IF x.t = "obj" THEN Lookup(x.v, key) ELSE JsNull

(***************************************************************************)
(* JSON.stringify                                                          *)
(***************************************************************************)
\* mutant of EscapeChar: no escaping
EscapeCharMut(c) == <<c>>

EscapeChar(c) == IF c = "\"" \/ c = "\\" THEN <<"\\", c>> ELSE <<c>>

RECURSIVE EscapeRange(_, _, _)
EscapeRange(chars, lo, hi) ==
  IF lo > hi THEN <<>>
  ELSE IF lo = hi THEN EscapeChar(chars[lo])
  ELSE LET mid == (lo + hi) \div 2 IN
    EscapeRange(chars, lo, mid) \o EscapeRange(chars, mid + 1, hi)

EscapeChars(chars) == EscapeRange(chars, 1, Len(chars))

Quote(chars) == <<"\"">> \o EscapeChars(chars) \o <<"\"">>

RECURSIVE Stringify(_)
RECURSIVE StringifyElems(_)
RECURSIVE StringifyMembers(_)
StringifyElems(elems) ==
  IF elems = <<>> THEN <<>>
  ELSE Stringify(Head(elems))
       \o (IF Len(elems) > 1 THEN <<",">> ELSE <<>>)
       \o StringifyElems(Tail(elems))

StringifyMembers(members) ==
  IF members = <<>> THEN <<>>
  ELSE Quote(Head(members).k) \o <<":">> \o Stringify(Head(members).v)
       \o (IF Len(members) > 1 THEN <<",">> ELSE <<>>)
       \o StringifyMembers(Tail(members))

Stringify(x) ==
  CASE x.t = "str" -> Quote(x.v)
    [] x.t = "arr" -> <<"[">> \o StringifyElems(x.v) \o <<"]">>
    [] x.t = "obj" -> <<"{">> \o StringifyMembers(x.v) \o <<"}">>
    [] OTHER -> <<"n", "u", "l", "l">>

(***************************************************************************)
(* JSON.parse: a recursive-descent parser over the characters.  A parse    *)
(* step returns [ok, val, pos]: pos is the index after what was consumed;  *)
(* ok = FALSE is the SyntaxError.  Supported grammar: arrays, objects,     *)
(* strings with the escapes \" \\ \/, the literal null, and white space.   *)
(***************************************************************************)
ParseFail == [ok |-> FALSE, val |-> JsNull, pos |-> 0]
ParseOk(val, pos) == [ok |-> TRUE, val |-> val, pos |-> pos]

RECURSIVE SkipWs(_, _)
SkipWs(s, i) == IF i <= Len(s) /\ IsSpace(s[i]) THEN SkipWs(s, i + 1) ELSE i

At(s, i, c) == i <= Len(s) /\ s[i] = c

\* the characters of a string literal whose opening quote is before index i
RECURSIVE ScanString(_, _, _)
ScanString(s, i, acc) ==
  IF i > Len(s) THEN ParseFail
  ELSE IF s[i] = "\"" THEN ParseOk(JsStr(acc), i + 1)
  ELSE IF s[i] = "\\" THEN
    IF i + 1 <= Len(s) /\ s[i + 1] \in {"\"", "\\", "/"}
      THEN ScanString(s, i + 2, Append(acc, s[i + 1]))
      ELSE ParseFail
  ELSE ScanString(s, i + 1, Append(acc, s[i]))

RECURSIVE ParseValue(_, _)
RECURSIVE ParseElems(_, _, _)
RECURSIVE ParseMembers(_, _, _)

\* after "[" or ",": one element, then "," or "]"
ParseElems(s, i, acc) ==
  LET e == ParseValue(s, i) IN
    IF ~e.ok THEN ParseFail
    ELSE LET j == SkipWs(s, e.pos) IN
      IF At(s, j, ",") THEN ParseElems(s, j + 1, Append(acc, e.val))
      ELSE IF At(s, j, "]") THEN ParseOk(JsArr(Append(acc, e.val)), j + 1)
      ELSE ParseFail

\* after "{" or ",": one "key": value, then "," or "}"
ParseMembers(s, i, acc) ==
  LET j == SkipWs(s, i) IN
    IF ~At(s, j, "\"") THEN ParseFail
    ELSE LET key == ScanString(s, j + 1, <<>>) IN
      IF ~key.ok THEN ParseFail
      ELSE LET c == SkipWs(s, key.pos) IN
        IF ~At(s, c, ":") THEN ParseFail
        ELSE LET e == ParseValue(s, c + 1) IN
          IF ~e.ok THEN ParseFail
          ELSE LET n == SkipWs(s, e.pos)
                   more == Append(acc, Member(key.val.v, e.val))
               IN IF At(s, n, ",") THEN ParseMembers(s, n + 1, more)
                  ELSE IF At(s, n, "}") THEN ParseOk(JsObj(more), n + 1)
                  ELSE ParseFail

ParseValue(s, i) ==
  LET j == SkipWs(s, i) IN
    IF At(s, j, "\"") THEN ScanString(s, j + 1, <<>>)
    ELSE IF At(s, j, "[") THEN
      (LET k == SkipWs(s, j + 1) IN
         IF At(s, k, "]") THEN ParseOk(JsArr(<<>>), k + 1)
         ELSE ParseElems(s, j + 1, <<>>))
    ELSE IF At(s, j, "{") THEN
      (LET k == SkipWs(s, j + 1) IN
         IF At(s, k, "}") THEN ParseOk(JsObj(<<>>), k + 1)
         ELSE ParseMembers(s, j + 1, <<>>))
    ELSE IF j + 3 <= Len(s) /\ SubSeq(s, j, j + 3) = <<"n", "u", "l", "l">>
      THEN ParseOk(JsNull, j + 4)
    ELSE ParseFail

\* JSON.parse(text): [ok, val]
JsonParse(text) ==
  LET r == ParseValue(text, 1) IN
    IF r.ok /\ SkipWs(text, r.pos) = Len(text) + 1
      THEN [ok |-> TRUE, val |-> r.val]
      ELSE [ok |-> FALSE, val |-> JsNull]

\* strict equality of the contents of two JSON values, kind first
RECURSIVE JsEq(_, _)
JsEq(a, b) ==
  /\ a.t = b.t
  /\ Len(a.v) = Len(b.v)
  /\ CASE a.t = "str" -> a.v = b.v
       [] a.t = "arr" -> \A i \in 1..Len(a.v) : JsEq(a.v[i], b.v[i])
       [] a.t = "obj" -> \A i \in 1..Len(a.v) :
                            a.v[i].k = b.v[i].k /\ JsEq(a.v[i].v, b.v[i].v)
       [] OTHER -> TRUE

(***************************************************************************)
(* Base64: btoa(String.fromCharCode(...bytes)) and                         *)
(* Uint8Array.from(atob(text), c => c.charCodeAt(0)).                      *)
(***************************************************************************)
B64 ==
  << "A", "B", "C", "D", "E", "F", "G", "H", "I", "J", "K", "L", "M",
     "N", "O", "P", "Q", "R", "S", "T", "U", "V", "W", "X", "Y", "Z",
     "a", "b", "c", "d", "e", "f", "g", "h", "i", "j", "k", "l", "m",
     "n", "o", "p", "q", "r", "s", "t", "u", "v", "w", "x", "y", "z",
     "0", "1", "2", "3", "4", "5", "6", "7", "8", "9", "+", "/" >>

B64Char(n) == B64[n + 1]
IsB64Char(c) == \E i \in 1..Len(B64) : B64[i] = c
B64Value(c) == (CHOOSE i \in 1..Len(B64) : B64[i] = c) - 1

RECURSIVE Btoa(_)
Btoa(b) ==
  LET n == Len(b) IN
    IF n = 0 THEN <<>>
    ELSE IF n = 1 THEN
      << B64Char(b[1] \div 4), B64Char((b[1] % 4) * 16), "=", "=" >>
    ELSE IF n = 2 THEN
      << B64Char(b[1] \div 4), B64Char((b[1] % 4) * 16 + (b[2] \div 16)),
         B64Char((b[2] % 16) * 4), "=" >>
    ELSE
      << B64Char(b[1] \div 4), B64Char((b[1] % 4) * 16 + (b[2] \div 16)),
         B64Char((b[2] % 16) * 4 + (b[3] \div 64)), B64Char(b[3] % 64) >>
      \o Btoa(SubSeq(b, 4, n))

\* the forgiving-base64 decode of atob: white space removed, at most two
\* trailing "=" of a text whose length is a multiple of four removed
StripWs(s) == SelectSeq(s, LAMBDA c : ~IsSpace(c))

StripPad(s) ==
  LET n == Len(s) IN
    IF n % 4 # 0 \/ n = 0 THEN s
    ELSE IF s[n] = "=" /\ s[n - 1] = "=" THEN SubSeq(s, 1, n - 2)
    ELSE IF s[n] = "=" THEN SubSeq(s, 1, n - 1)
    ELSE s

RECURSIVE B64Bytes(_)
B64Bytes(s) ==
  LET n == Len(s) IN
    IF n < 2 THEN <<>>
    ELSE
      LET a == B64Value(s[1])
          b == B64Value(s[2])
      IN
        IF n = 2 THEN << a * 4 + (b \div 16) >>
        ELSE LET c == B64Value(s[3]) IN
          IF n = 3 THEN << a * 4 + (b \div 16), (b % 16) * 16 + (c \div 4) >>
          ELSE LET d == B64Value(s[4]) IN
            << a * 4 + (b \div 16), (b % 16) * 16 + (c \div 4), (c % 4) * 64 + d >>
            \o B64Bytes(SubSeq(s, 5, n))

\* [ok, val]: ok = FALSE is atob's InvalidCharacterError
Atob(text) ==
  LET s == StripPad(StripWs(text)) IN
    IF Len(s) % 4 = 1 \/ \E i \in 1..Len(s) : ~IsB64Char(s[i])
      THEN [ok |-> FALSE, val |-> <<>>]
      ELSE [ok |-> TRUE, val |-> B64Bytes(s)]

(***************************************************************************)
(* Web Crypto, idealised.                                                  *)
(*   - PBKDF2 is injective: the key derived from (password, salt) is the   *)
(*     pair itself;                                                        *)
(*   - AES-GCM output (ciphertext and tag) is one opaque element           *)
(*     [key, iv, data] that decrypts exactly under the same key and IV;    *)
(*   - the base64 text of a buffer holding that element is the tagged      *)
(*     record [b64 |-> buffer] (real base64 is used for the salt, whose    *)
(*     bytes are concrete);                                                *)
(*   - a text that encrypt did not produce is either such a record or      *)
(*     [raw |-> chars], its characters, decoded by the real atob; raw      *)
(*     texts used here decode to no more than IV_LENGTH bytes.             *)
(***************************************************************************)
\* mutant of getRandomBytes: the same bytes at every draw
getRandomBytesMut(length, draw) == [i \in 1..length |-> 0]

\* crypto.getRandomValues(new Uint8Array(length)): the array filled by draw
getRandomBytes(length, draw) == [i \in 1..length |-> draw]

\* mutant of RandomUUID: the same identifier at every draw
RandomUUIDMut(n) == <<"u", "1">>

\* crypto.randomUUID(): the n-th identifier drawn, never one drawn before
RandomUUID(n) == <<"u", CharOf(48 + n)>>

deriveKey(password, salt) == [password |-> encodeUTF8(password), salt |-> salt]

\* crypto.subtle.encrypt({name: "AES-GCM", iv}, key, data)
SubtleEncrypt(key, iv, data) == [key |-> key, iv |-> iv, data |-> data]

\* crypto.subtle.decrypt({name: "AES-GCM", iv}, key, ciphertext): [ok, val];
\* ok = FALSE is the OperationError of a failed tag verification
SubtleDecrypt(key, iv, ciphertext) ==
  IF /\ Len(ciphertext) = 1
     /\ ciphertext[1].key = key
     /\ ciphertext[1].iv = iv
    THEN [ok |-> TRUE, val |-> ciphertext[1].data]
    ELSE [ok |-> FALSE, val |-> <<>>]

\* encrypt(key, data) once crypto.subtle.encrypt has resolved: IV + ciphertext,
\* base64 encoded
EncryptResult(key, iv, encodedData) ==
  LET encrypted == SubtleEncrypt(key, iv, encodedData)
      buffer == iv \o <<encrypted>>
  IN [b64 |-> buffer]

\* decrypt(key, data) up to the call of crypto.subtle.decrypt: [ok, iv, ciphertext]
\* ok = FALSE when atob throws
DecryptArgs(data) ==
  LET decoded == IF "raw" \in DOMAIN data THEN Atob(data.raw)
                 ELSE [ok |-> TRUE, val |-> data.b64]
      buffer == decoded.val
  IN
    [ok |-> decoded.ok,
     iv |-> SubSeq(buffer, 1, IF Len(buffer) < IV_LENGTH THEN Len(buffer) ELSE IV_LENGTH),
     ciphertext |-> SubSeq(buffer, IV_LENGTH + 1, Len(buffer))]

(***************************************************************************)
(* State.                                                                  *)
(***************************************************************************)
VARIABLES
  lsData,      \* localStorage[STORAGE_KEY]: Null or Some(envelope text)
  lsSalt,      \* localStorage[SALT_KEY]: Null or Some(base64 text)
  entries,     \* vault.entries, a JavaScript value
  cryptoKey,   \* vault.cryptoKey: Null or Some(key)
  vaultSalt,   \* vault.salt: Null or Some(bytes)
  section,     \* which section is visible: "login" or "vault"
  loginError,  \* text of #login-error
  entryError,  \* text of #entry-error
  rendered,    \* ids of the entries drawn in #entries-list (one delete button each)
  unlocks,     \* handleUnlock invocations suspended on deriveKey or decrypt
  saves,       \* saveVaultData invocations suspended on encrypt
  uuidCount,   \* identifiers drawn by crypto.randomUUID so far
  ivCount,     \* IVs drawn by encrypt so far
  saltCount,   \* salts drawn by handleUnlock so far
  unlockCount, \* handleUnlock calls that reached deriveKey so far
  atLock       \* history: Some of vault.entries, vault.cryptoKey and unlockCount
               \* as they were when handleLogout last started on this page;
               \* Null before

vars == << lsData, lsSalt, entries, cryptoKey, vaultSalt, section, loginError,
           entryError, rendered, unlocks, saves, uuidCount, ivCount, saltCount, unlockCount, atLock >>

\* inputs of the model
Passwords == { <<>>, <<"p">>, <<"q">> }
TitleValues == { <<>>, <<" ">>, <<" ", "a", " ">> }
ContentValues == { <<>>, <<" ", " ">>, <<"\"", "U+00E9", "\\">> }

MSG_EMPTY_PASSWORD == "Please enter your master password."
MSG_UNLOCK_FAILED == "Invalid password or corrupted vault."
MSG_UNLOCK_ERROR == "An error occurred during unlock."
MSG_ADD_EMPTY == "Title and content cannot be empty."
MSG_HANDLE_ADD_EMPTY == "Both title and content are required."

RemoveAt(seq, i) == SubSeq(seq, 1, i - 1) \o SubSeq(seq, i + 1, Len(seq))

\* saveSalt(salt): the new value of localStorage[SALT_KEY]
saveSalt(salt) == Some(Btoa(salt))

\* mutant of loadSalt: the stored salt is never found
loadSaltMut == [ok |-> TRUE, val |-> Null]

\* loadSalt(): [ok, val]; val is Null or Some(bytes); ok = FALSE when atob throws
loadSalt ==
  IF IsNull(lsSalt) \/ Falsy(Get(lsSalt)) THEN [ok |-> TRUE, val |-> Null]
  ELSE LET r == Atob(Get(lsSalt)) IN
    IF r.ok THEN [ok |-> TRUE, val |-> Some(r.val)] ELSE [ok |-> FALSE, val |-> Null]

\* loadVault()
loadVault == lsData

\* !encryptedData in loadVaultData: null or the empty string
NoVault(encryptedData) ==
  \/ IsNull(encryptedData)
  \/ "raw" \in DOMAIN Get(encryptedData) /\ Falsy(Get(encryptedData).raw)

Init ==
  /\ lsData = Null
  /\ lsSalt = Null
  /\ entries = JsArr(<<>>)
  /\ cryptoKey = Null
  /\ vaultSalt = Null
  /\ section = "login"
  /\ loginError = ""
  /\ entryError = ""
  /\ rendered = <<>>
  /\ unlocks = <<>>
  /\ saves = <<>>
  /\ uuidCount = 0
  /\ ivCount = 0
  /\ saltCount = 0
  /\ unlockCount = 0
  /\ atLock = Null

(***************************************************************************)
(* renderEntries: [ok, ids].  ok = FALSE is the TypeError thrown when       *)
(* vault.entries has no length (null), no forEach (not an array) or a null *)
(* element; ids are the ids of the delete buttons drawn.                   *)
(***************************************************************************)
renderEntries(es) ==
  IF es.t = "null" THEN [ok |-> FALSE, ids |-> <<>>]
  ELSE IF es.t \in {"arr", "str"} /\ Len(es.v) = 0 THEN
    \* vault.entries.length === 0: "Your vault is empty."
    [ok |-> TRUE, ids |-> <<>>]
  ELSE IF IsArray(es) THEN
    \* forEach; destructuring a null element throws, the elements before it
    \* are drawn
    LET nulls == { i \in 1..Len(es.v) : es.v[i].t = "null" }
        n == IF nulls = {} THEN Len(es.v)
             ELSE (CHOOSE i \in nulls : \A j \in nulls : i <= j) - 1
    IN [ok |-> nulls = {}, ids |-> [i \in 1..n |-> Prop(es.v[i], K_id)]]
  ELSE [ok |-> FALSE, ids |-> <<>>]

(***************************************************************************)
(* saveVaultData up to its suspension on crypto.subtle.encrypt: the new    *)
(* value of saves.  The plaintext, the key and the IV are fixed here, at   *)
(* the call.  With no key, crypto.subtle.encrypt rejects: nothing is       *)
(* stored and the .then callbacks of the callers never run.                *)
(***************************************************************************)
\* mutant of saveVaultData: the sequence is serialized without its last entry
saveVaultDataMut(es, kind) ==
  LET plaintext == Stringify(IF IsArray(es) /\ Len(es.v) > 0
                               THEN JsArr(SubSeq(es.v, 1, Len(es.v) - 1)) ELSE es)
      iv == getRandomBytes(IV_LENGTH, ivCount + 1)
  IN IF IsNull(cryptoKey) THEN saves
     ELSE Append(saves, [key |-> Get(cryptoKey), iv |-> iv,
                         data |-> encodeUTF8(plaintext), kind |-> kind])

saveVaultData(es, kind) ==
  LET plaintext == Stringify(es)
      iv == getRandomBytes(IV_LENGTH, ivCount + 1)
  IN IF IsNull(cryptoKey) THEN saves
     ELSE Append(saves, [key |-> Get(cryptoKey), iv |-> iv,
                         data |-> encodeUTF8(plaintext), kind |-> kind])

\* mutant of Without: the comparison reversed (e.id === id)
WithoutMut(es, id) ==
  JsArr(SelectSeq(es.v, LAMBDA e : JsEq(Prop(e, K_id), id)))

\* vault.entries.filter(e => e.id !== id)
Without(es, id) ==
  JsArr(SelectSeq(es.v, LAMBDA e : ~JsEq(Prop(e, K_id), id)))

(***************************************************************************)
(* addEntry(title, content); err is the text of #entry-error at the call.  *)
(***************************************************************************)
addEntry(title, content, err) ==
  IF Falsy(title) \/ Falsy(content) THEN
    /\ entryError' = MSG_ADD_EMPTY
    /\ UNCHANGED << lsData, lsSalt, entries, cryptoKey, vaultSalt, section,
                    loginError, rendered, unlocks, saves, uuidCount, ivCount, saltCount, unlockCount, atLock >>
  ELSE
    LET newEntry == Entry(RandomUUID(uuidCount + 1), Trim(title), Trim(content)) IN
      /\ unlockCount + ivCount < MaxOps
      /\ uuidCount < MaxOps
      /\ uuidCount' = uuidCount + 1
      /\ entryError' = err
      /\ IF IsArray(entries)
           THEN /\ entries' = JsArr(Append(entries.v, newEntry))
                /\ saves' = saveVaultData(entries', "add")
                /\ ivCount' = ivCount + 1
           ELSE \* vault.entries.push is not a function: TypeError
                UNCHANGED << entries, saves, ivCount >>
      /\ UNCHANGED << lsData, lsSalt, cryptoKey, vaultSalt, section, loginError,
                      rendered, unlocks, saltCount, unlockCount, atLock >>

\* click on #add-entry-btn (or Ctrl+Enter) with the two inputs holding
\* titleValue and contentValue
HandleAddEntry(titleValue, contentValue) ==
  /\ section = "vault"
  /\ LET title == Trim(titleValue)
         content == Trim(contentValue)
     IN IF Falsy(title) \/ Falsy(content) THEN
          /\ entryError' = MSG_HANDLE_ADD_EMPTY
          /\ UNCHANGED << lsData, lsSalt, entries, cryptoKey, vaultSalt, section,
                          loginError, rendered, unlocks, saves, uuidCount, ivCount,
                          saltCount, unlockCount, atLock >>
        ELSE addEntry(title, content, "")

\* deleteEntry(id); id is a JavaScript value (a string for every entry the
\* vault created)
deleteEntry(id) ==
  /\ unlockCount + ivCount < MaxOps
  /\ IF IsArray(entries)
       THEN /\ entries' = Without(entries, id)
            /\ saves' = saveVaultData(entries', "delete")
            /\ ivCount' = ivCount + 1
       ELSE UNCHANGED << entries, saves, ivCount >>
  /\ UNCHANGED << lsData, lsSalt, cryptoKey, vaultSalt, section, loginError,
                  entryError, rendered, unlocks, uuidCount, saltCount, unlockCount, atLock >>

\* click on the delete button drawn for the i-th rendered entry
ClickDelete(i) ==
  /\ section = "vault"
  /\ i \in 1..Len(rendered)
  /\ deleteEntry(rendered[i])

\* saveVaultData resumes for the i-th suspended save: the envelope is stored,
\* then the caller's .then callback runs
SaveEncrypted(i) ==
  /\ i \in 1..Len(saves)
  /\ LET task == saves[i]
         encryptedData == EncryptResult(task.key, task.iv, task.data)
         drawn == renderEntries(entries)
     IN /\ lsData' = Some(encryptedData)
        /\ rendered' = drawn.ids
        /\ entryError' = IF task.kind = "add" /\ drawn.ok THEN "" ELSE entryError
  /\ saves' = RemoveAt(saves, i)
  /\ UNCHANGED << lsSalt, entries, cryptoKey, vaultSalt, section, loginError,
                  unlocks, uuidCount, ivCount, saltCount, unlockCount, atLock >>

(***************************************************************************)
(* handleUnlock.  A suspended invocation is a record                       *)
(*   [pc |-> "deriveKey", key |-> the key being derived, data |-> Null]    *)
(*   [pc |-> "decrypt", key |-> vault.cryptoKey as read at the call of     *)
(*    decrypt, data |-> Some(the envelope text read by loadVault)].        *)
(***************************************************************************)
\* mutant of UnlockSucceeded: showVaultSection is not called
UnlockSucceededMut(es) ==
  LET drawn == renderEntries(es) IN
    /\ UNCHANGED section
    /\ rendered' = drawn.ids
    /\ loginError' = IF drawn.ok THEN loginError ELSE MSG_UNLOCK_ERROR

\* the end of handleUnlock after loadVaultData returned true
UnlockSucceeded(es) ==
  LET drawn == renderEntries(es) IN
    /\ section' = "vault"
    /\ rendered' = drawn.ids
    /\ loginError' = IF drawn.ok THEN loginError ELSE MSG_UNLOCK_ERROR

\* mutant of UnlockFailed: the key is not discarded
UnlockFailedMut ==
  /\ loginError' = MSG_UNLOCK_FAILED
  /\ UNCHANGED << cryptoKey, section, rendered >>

\* the end of handleUnlock after loadVaultData returned false
UnlockFailed ==
  /\ loginError' = MSG_UNLOCK_FAILED
  /\ cryptoKey' = Null
  /\ UNCHANGED << section, rendered >>

\* click on #unlock-btn (or Enter) with #master-password holding password
HandleUnlock(password) ==
  /\ section = "login"
  /\ IF Falsy(password) THEN
       /\ loginError' = MSG_EMPTY_PASSWORD
       /\ UNCHANGED << lsData, lsSalt, entries, cryptoKey, vaultSalt, section,
                       entryError, rendered, unlocks, saves, uuidCount, ivCount,
                       saltCount, unlockCount, atLock >>
     ELSE
       LET loaded == loadSalt IN
         IF ~loaded.ok THEN
           \* atob threw inside loadSalt: the catch block
           /\ loginError' = MSG_UNLOCK_ERROR
           /\ UNCHANGED << lsData, lsSalt, entries, cryptoKey, vaultSalt, section,
                           entryError, rendered, unlocks, saves, uuidCount, ivCount,
                           saltCount, unlockCount, atLock >>
         ELSE
           /\ unlockCount + ivCount < MaxOps
           /\ unlockCount' = unlockCount + 1
           /\ LET salt == IF IsNull(loaded.val)
                             THEN getRandomBytes(SALT_LENGTH, saltCount + 1)
                             ELSE Get(loaded.val)
              IN /\ lsSalt' = IF IsNull(loaded.val) THEN saveSalt(salt) ELSE lsSalt
                 /\ saltCount' = IF IsNull(loaded.val) THEN saltCount + 1 ELSE saltCount
                 /\ vaultSalt' = Some(salt)
                 /\ unlocks' = Append(unlocks,
                      [pc |-> "deriveKey", key |-> deriveKey(password, salt),
                       data |-> Null])
           /\ loginError' = ""
           /\ UNCHANGED << lsData, entries, cryptoKey, section, entryError, rendered,
                           saves, uuidCount, ivCount, atLock >>

\* deriveKey resolves for the i-th suspended unlock: vault.cryptoKey is
\* assigned and loadVaultData runs up to crypto.subtle.decrypt
UnlockDerived(i) ==
  /\ i \in 1..Len(unlocks)
  /\ unlocks[i].pc = "deriveKey"
  /\ LET key == unlocks[i].key
         encryptedData == loadVault
     IN IF NoVault(encryptedData) THEN
          \* no stored data: vault.entries = [], return true
          /\ cryptoKey' = Some(key)
          /\ entries' = JsArr(<<>>)
          /\ UnlockSucceeded(entries')
          /\ unlocks' = RemoveAt(unlocks, i)
        ELSE IF ~DecryptArgs(Get(encryptedData)).ok THEN
          \* atob threw inside decrypt before anything was awaited:
          \* loadVaultData returns false in the same task
          /\ UnlockFailed
          /\ UNCHANGED entries
          /\ unlocks' = RemoveAt(unlocks, i)
        ELSE
          /\ cryptoKey' = Some(key)
          /\ unlocks' = [unlocks EXCEPT ![i] =
                           [pc |-> "decrypt", key |-> key, data |-> encryptedData]]
          /\ UNCHANGED << entries, section, rendered, loginError >>
  /\ UNCHANGED << lsData, lsSalt, vaultSalt, entryError, saves, uuidCount, ivCount,
                  saltCount, unlockCount, atLock >>

\* mutant of UnlockDecrypted: a failed unlock removes the stored envelope
UnlockDecryptedMut(i) ==
  /\ i \in 1..Len(unlocks)
  /\ unlocks[i].pc = "decrypt"
  /\ LET args == DecryptArgs(Get(unlocks[i].data))
         decrypted == SubtleDecrypt(unlocks[i].key, args.iv, args.ciphertext)
         parsed == JsonParse(decodeUTF8(decrypted.val))
     IN IF decrypted.ok /\ parsed.ok THEN
          /\ entries' = parsed.val
          /\ UnlockSucceeded(entries')
          /\ UNCHANGED << cryptoKey, lsData >>
        ELSE
          /\ UnlockFailed
          /\ lsData' = Null
          /\ UNCHANGED entries
  /\ unlocks' = RemoveAt(unlocks, i)
  /\ UNCHANGED << lsSalt, vaultSalt, entryError, saves, uuidCount, ivCount,
                  saltCount, unlockCount, atLock >>

\* crypto.subtle.decrypt settles for the i-th suspended unlock: the rest of
\* loadVaultData and of handleUnlock
UnlockDecrypted(i) ==
  /\ i \in 1..Len(unlocks)
  /\ unlocks[i].pc = "decrypt"
  /\ LET args == DecryptArgs(Get(unlocks[i].data))
         decrypted == SubtleDecrypt(unlocks[i].key, args.iv, args.ciphertext)
         parsed == JsonParse(decodeUTF8(decrypted.val))
     IN IF decrypted.ok /\ parsed.ok THEN
          /\ entries' = parsed.val
          /\ UnlockSucceeded(entries')
          /\ UNCHANGED cryptoKey
        ELSE
          /\ UnlockFailed
          /\ UNCHANGED entries
  /\ unlocks' = RemoveAt(unlocks, i)
  /\ UNCHANGED << lsData, lsSalt, vaultSalt, entryError, saves, uuidCount, ivCount,
                  saltCount, unlockCount, atLock >>

\* mutant of HandleLogout: vault.entries is not emptied
HandleLogoutMut ==
  /\ section = "vault"
  /\ cryptoKey' = Null
  /\ UNCHANGED entries
  /\ entryError' = ""
  /\ loginError' = ""
  /\ section' = "login"
  /\ atLock' = Some([entries |-> entries, cryptoKey |-> cryptoKey,
                     unlockCount |-> unlockCount])
  /\ UNCHANGED << lsData, lsSalt, vaultSalt, rendered, unlocks, saves, uuidCount,
                  ivCount, saltCount, unlockCount >>

\* mutant of HandleLogout: vault.cryptoKey is not cleared
HandleLogoutKeepsKey ==
  /\ section = "vault"
  /\ UNCHANGED cryptoKey
  /\ entries' = JsArr(<<>>)
  /\ entryError' = ""
  /\ loginError' = ""
  /\ section' = "login"
  /\ atLock' = Some([entries |-> entries, cryptoKey |-> cryptoKey,
                     unlockCount |-> unlockCount])
  /\ UNCHANGED << lsData, lsSalt, vaultSalt, rendered, unlocks, saves, uuidCount,
                  ivCount, saltCount, unlockCount >>

\* click on #logout-btn
HandleLogout ==
  /\ section = "vault"
  /\ cryptoKey' = Null
  /\ entries' = JsArr(<<>>)
  /\ entryError' = ""
  /\ loginError' = ""
  /\ section' = "login"
  /\ atLock' = Some([entries |-> entries, cryptoKey |-> cryptoKey,
                     unlockCount |-> unlockCount])
  /\ UNCHANGED << lsData, lsSalt, vaultSalt, rendered, unlocks, saves, uuidCount,
                  ivCount, saltCount, unlockCount >>

\* the page is loaded again: the script starts over, localStorage persists
Reload ==
  /\ entries' = JsArr(<<>>)
  /\ cryptoKey' = Null
  /\ vaultSalt' = Null
  /\ section' = "login"
  /\ loginError' = ""
  /\ entryError' = ""
  /\ rendered' = <<>>
  /\ unlocks' = <<>>
  /\ saves' = <<>>
  /\ atLock' = Null
  /\ UNCHANGED << lsData, lsSalt, uuidCount, ivCount, saltCount, unlockCount >>

Next ==
  \/ \E password \in Passwords : HandleUnlock(password)
  \/ \E i \in DOMAIN unlocks : UnlockDerived(i)
  \/ \E i \in DOMAIN unlocks : UnlockDecrypted(i)
  \/ HandleLogout
  \/ \E titleValue \in TitleValues, contentValue \in ContentValues :
       HandleAddEntry(titleValue, contentValue)
  \/ \E i \in DOMAIN rendered : ClickDelete(i)
  \/ \E i \in DOMAIN saves : SaveEncrypted(i)
  \/ Reload

Spec == Init /\ [][Next]_vars

(***************************************************************************)
(* The same program when every operation runs to completion before the     *)
(* next one starts (the serialisation spec.md section 5 asks for): an      *)
(* event handler runs only when nothing is suspended.                      *)
(***************************************************************************)
Idle == unlocks = <<>> /\ saves = <<>>

SerialNext ==
  \/ Idle /\ \E password \in Passwords : HandleUnlock(password)
  \/ \E i \in DOMAIN unlocks : UnlockDerived(i)
  \/ \E i \in DOMAIN unlocks : UnlockDecrypted(i)
  \/ Idle /\ HandleLogout
  \/ Idle /\ \E titleValue \in TitleValues, contentValue \in ContentValues :
               HandleAddEntry(titleValue, contentValue)
  \/ Idle /\ \E i \in DOMAIN rendered : ClickDelete(i)
  \/ \E i \in DOMAIN saves : SaveEncrypted(i)
  \/ Idle /\ Reload

SpecSerial == Init /\ [][SerialNext]_vars

(***************************************************************************)
(* The serialised program with addEntry also called directly, with         *)
(* arguments that did not pass through handleAddEntry, while the vault     *)
(* section is shown.                                                       *)
(***************************************************************************)
AddEntryCall(title, content) ==
  /\ section = "vault"
  /\ addEntry(title, content, entryError)

ApiNext ==
  \/ SerialNext
  \/ Idle /\ \E title \in TitleValues, content \in ContentValues :
               AddEntryCall(title, content)

SpecApi == Init /\ [][ApiNext]_vars

(***************************************************************************)
(* localStorage written from outside this script (another page of the      *)
(* origin, the developer tools, a damaged profile), while nothing is       *)
(* suspended.  The texts are the ones the unlock path tells apart:         *)
(*   - the empty string;                                                   *)
(*   - a text atob rejects;                                                *)
(*   - a text that decodes to fewer bytes than an IV;                      *)
(*   - an IV followed by a ciphertext no derived key authenticates;        *)
(*   - envelopes sealed under the key of password "p" and the stored salt  *)
(*     whose plaintext is not a serialized entry array.                    *)
(***************************************************************************)
RawText(chars) == [raw |-> chars]

EmptyText == RawText(<<>>)
InvalidBase64Text == RawText(<<"!">>)
ShortText == RawText(<<"A", "A", "A", "A">>)

\* a key no password derives
ForgedKey == [password |-> <<>>, salt |-> <<>>]

\* an IV this script does not draw
ForeignIV == getRandomBytes(IV_LENGTH, 0)

TamperedText == EncryptResult(ForgedKey, ForeignIV, <<>>)

\* plaintext bytes: {}  ""  {  and a byte that is not UTF-8
MalformedPayloads ==
  { encodeUTF8(<<"{", "}">>), encodeUTF8(<<"\"", "\"">>), encodeUTF8(<<"{">>), <<255>> }

ForeignTexts ==
  LET loaded == loadSalt IN
    {EmptyText, InvalidBase64Text, ShortText, TamperedText}
    \cup (IF loaded.ok /\ ~IsNull(loaded.val)
            THEN { EncryptResult(deriveKey(<<"p">>, Get(loaded.val)), ForeignIV, payload) :
                     payload \in MalformedPayloads }
            ELSE {})

\* localStorage.setItem(STORAGE_KEY, text) from outside
StorageWrite(text) ==
  /\ lsData' = Some(text)
  /\ UNCHANGED << lsSalt, entries, cryptoKey, vaultSalt, section, loginError,
                  entryError, rendered, unlocks, saves, uuidCount, ivCount,
                  saltCount, unlockCount, atLock >>

\* localStorage.setItem(SALT_KEY, text) from outside, text not base64
SaltWrite ==
  /\ lsSalt' = Some(<<"!">>)
  /\ UNCHANGED << lsData, entries, cryptoKey, vaultSalt, section, loginError,
                  entryError, rendered, unlocks, saves, uuidCount, ivCount,
                  saltCount, unlockCount, atLock >>

StoreNext ==
  \/ SerialNext
  \/ Idle /\ \E text \in ForeignTexts : StorageWrite(text)
  \/ Idle /\ SaltWrite

SpecStore == Init /\ [][StoreNext]_vars

(***************************************************************************)
(* The program under any order of events and completions, with             *)
(* localStorage written from outside while the login section is shown and  *)
(* nothing is suspended.                                                   *)
(***************************************************************************)
OpenNext ==
  \/ Next
  \/ Idle /\ section = "login" /\ \E text \in ForeignTexts : StorageWrite(text)
  \/ Idle /\ section = "login" /\ SaltWrite

SpecOpen == Init /\ [][OpenNext]_vars

(***************************************************************************)
(* Vocabulary of the properties.                                           *)
(***************************************************************************)
EmptyEntries == JsArr(<<>>)
Unlocked == section = "vault" /\ ~IsNull(cryptoKey)
IdOf(e) == Prop(e, K_id)

\* what the envelope text opens to under key: [ok, val]
OpenEnvelope(text, key) ==
  LET args == DecryptArgs(text)
      decrypted == SubtleDecrypt(key, args.iv, args.ciphertext)
  IN IF decrypted.ok THEN JsonParse(decodeUTF8(decrypted.val))
     ELSE [ok |-> FALSE, val |-> JsNull]

OpensTo(text, key, es) ==
  \A r \in { OpenEnvelope(text, key) } : r.ok /\ JsEq(r.val, es)

\* the key an envelope text was sealed under
SealedKey(text) == text.b64[Len(text.b64)].key

\* after is before without the elements whose id is id, the others in order
IsRemovalOf(before, after, id) ==
  LET kept == { k \in 1..Len(before) : ~JsEq(IdOf(before[k]), id) } IN
    /\ Len(after) = Cardinality(kept)
    /\ \E f \in [1..Len(after) -> 1..Len(before)] :
         /\ \A j \in 1..Len(after) : f[j] \in kept /\ JsEq(after[j], before[f[j]])
         /\ \A j, k \in 1..Len(after) : j < k => f[j] < f[k]

\* the suspended save added by a step is of the full sequence es under key
SaveStarted(es, key) ==
  /\ Len(saves') = Len(saves) + 1
  /\ SubSeq(saves', 1, Len(saves)) = saves
  /\ saves'[Len(saves')].key = key
  /\ \A plaintext \in { decodeUTF8(saves'[Len(saves')].data) } :
       \A r \in { JsonParse(plaintext) } : r.ok /\ JsEq(r.val, es)

\* identifiers crypto.randomUUID has returned so far
CreatedIds == { JsStr(RandomUUID(k)) : k \in 1..uuidCount }

DistinctIds(es) ==
  \A j, k \in 1..Len(es.v) : j # k => ~JsEq(IdOf(es.v[j]), IdOf(es.v[k]))

(***************************************************************************)
(* C1 (SpecSerial).  Session round trip: with operations executed one at a *)
(* time, when an unlock issued after a lock with the password of the       *)
(* locked session (the key derived is the key held at the lock) completes, *)
(* the vault section is shown under that key and vault.entries is the      *)
(* sequence held just before the lock: same length, same order, same id,   *)
(* title and content.                                                      *)
(***************************************************************************)
C1_RoundTrip ==
  [][ ( /\ section = "login"
        /\ ~IsNull(atLock)
        /\ unlocks # <<>>
        /\ Len(unlocks') < Len(unlocks)
        /\ Get(atLock).cryptoKey = Some(unlocks[1].key) )
      => ( /\ section' = "vault"
           /\ cryptoKey' = Get(atLock).cryptoKey
           /\ JsEq(entries', Get(atLock).entries) ) ]_vars

\* a session reopened under the key of the lock, holding the two entries
\* that were held at the lock
C1_Witness ==
  /\ section = "vault"
  /\ ~IsNull(atLock)
  /\ cryptoKey = Get(atLock).cryptoKey
  /\ Len(Get(atLock).entries.v) = 2
  /\ JsEq(entries, Get(atLock).entries)

(***************************************************************************)
(* C2 (Spec).  Wrong-password rejection: when the decryption of an unlock  *)
(* settles while the session is Locked and the envelope it read was sealed *)
(* under another key, the session stays Locked, vault.cryptoKey is null,   *)
(* vault.entries is empty and the unlock-failure message is shown.         *)
(***************************************************************************)
C2_WrongPasswordRejected ==
  [][ \A i \in DOMAIN unlocks :
        ( /\ UnlockDecrypted(i)
          /\ section = "login"
          /\ SealedKey(Get(unlocks[i].data)) # unlocks[i].key )
        => ( /\ section' = "login"
             /\ IsNull(cryptoKey')
             /\ JsEq(entries', EmptyEntries)
             /\ loginError' = MSG_UNLOCK_FAILED ) ]_vars

\* a failed unlock against a stored envelope has been reported
C2_Witness ==
  /\ section = "login"
  /\ ~IsNull(lsData)
  /\ loginError = MSG_UNLOCK_FAILED
  /\ IsNull(cryptoKey)
  /\ unlocks = <<>>

(***************************************************************************)
(* C3 (Spec).  Salt stability: the persisted salt changes only from absent *)
(* to present, and only while no envelope is stored; one salt is drawn in  *)
(* the vault's lifetime.                                                   *)
(***************************************************************************)
C3_SaltStable ==
  [][ /\ (lsSalt' # lsSalt => (IsNull(lsSalt) /\ IsNull(lsData)))
      /\ saltCount' <= 1 ]_vars

\* two unlock requests in flight over a persisted salt and a stored envelope
C3_Witness ==
  /\ ~IsNull(lsSalt)
  /\ ~IsNull(lsData)
  /\ Len(unlocks) = 2

(***************************************************************************)
(* C4 (Spec).  No lost mutation under interleaving: in a session unlocked  *)
(* once, when every save of the mutations issued has completed, the stored *)
(* envelope opens under the session key to vault.entries.                  *)
(***************************************************************************)
C4_NoLostMutation ==
  ( /\ unlockCount = 1
    /\ Unlocked
    /\ Idle
    /\ ivCount >= 2
    /\ ~IsNull(lsData) )
  => OpensTo(Get(lsData), Get(cryptoKey), entries)

(***************************************************************************)
(* C5 (SpecApi).  addEntry validation: a call of addEntry, direct or from  *)
(* handleAddEntry, whose title or content is empty after trimming shows a  *)
(* validation message and changes neither vault.entries nor what is or     *)
(* will be stored.                                                         *)
(***************************************************************************)
C5_BlankRejected ==
  [][ \A title \in TitleValues, content \in ContentValues :
        ( /\ AddEntryCall(title, content) \/ HandleAddEntry(title, content)
          /\ Falsy(Trim(title)) \/ Falsy(Trim(content)) )
        => ( /\ entryError' \in {MSG_ADD_EMPTY, MSG_HANDLE_ADD_EMPTY}
             /\ entries' = entries
             /\ saves' = saves
             /\ lsData' = lsData ) ]_vars

(***************************************************************************)
(* C6 (Spec).  Empty-password unlock: handleUnlock with an empty password  *)
(* shows the empty-password message and changes none of vault.cryptoKey,   *)
(* vault.salt, vault.entries, the persisted salt and the persisted         *)
(* envelope; no salt is drawn and no key derivation is started.            *)
(***************************************************************************)
C6_EmptyPasswordNoChange ==
  [][ HandleUnlock(<<>>)
      => ( /\ loginError' = MSG_EMPTY_PASSWORD
           /\ UNCHANGED << cryptoKey, vaultSalt, entries, lsSalt, lsData, unlocks,
                           saltCount, section >> ) ]_vars

\* the empty-password message shown on a vault that has no salt yet
C6_Witness ==
  /\ loginError = MSG_EMPTY_PASSWORD
  /\ IsNull(lsSalt)
  /\ IsNull(vaultSalt)

(***************************************************************************)
(* C7 (Spec).  Fresh empty vault: when a derived key arrives and no        *)
(* envelope is stored, the unlock succeeds at once: no decryption is       *)
(* started, vault.entries is the empty sequence, the key is present and    *)
(* the vault section is shown.                                             *)
(***************************************************************************)
C7_FreshVaultUnlocks ==
  [][ \A i \in DOMAIN unlocks :
        (UnlockDerived(i) /\ IsNull(lsData))
        => ( /\ section' = "vault"
             /\ cryptoKey' = Some(unlocks[i].key)
             /\ JsEq(entries', EmptyEntries)
             /\ unlocks' = RemoveAt(unlocks, i)
             /\ loginError' \notin {MSG_UNLOCK_FAILED, MSG_UNLOCK_ERROR} ) ]_vars

\* an empty vault unlocked again after a lock
C7_Witness ==
  /\ Unlocked
  /\ IsNull(lsData)
  /\ ~IsNull(atLock)
  /\ JsEq(entries, EmptyEntries)

(***************************************************************************)
(* C8 (Spec).  Lock discards secrets and does not persist: handleLogout    *)
(* sets vault.cryptoKey to null and vault.entries to the empty sequence in *)
(* one step and leaves the persisted salt and envelope unchanged.          *)
(***************************************************************************)
C8_LockDiscards ==
  [][ HandleLogout
      => ( /\ IsNull(cryptoKey')
           /\ JsEq(entries', EmptyEntries)
           /\ section' = "login"
           /\ UNCHANGED << lsSalt, lsData >> ) ]_vars

\* locked after a session that held an entry and a key
C8_Witness ==
  /\ section = "login"
  /\ ~IsNull(atLock)
  /\ Len(Get(atLock).entries.v) > 0
  /\ ~IsNull(Get(atLock).cryptoKey)
  /\ IsNull(cryptoKey)
  /\ ~IsNull(lsData)

C10_AddAppends ==
  [][ \A titleValue \in TitleValues, contentValue \in ContentValues :
        ( /\ HandleAddEntry(titleValue, contentValue)
          /\ ~Falsy(Trim(titleValue))
          /\ ~Falsy(Trim(contentValue)) )
        => ( /\ IsArray(entries')
             /\ Len(entries'.v) = Len(entries.v) + 1
             /\ JsEq(JsArr(SubSeq(entries'.v, 1, Len(entries.v))), entries)
             /\ LET new == entries'.v[Len(entries'.v)] IN
                  /\ IdOf(new).t = "str"
                  /\ JsEq(new, Entry(IdOf(new).v, Trim(titleValue), Trim(contentValue)))
                  /\ IdOf(new) \notin CreatedIds
             /\ DistinctIds(entries') ) ]_vars

\* a second entry appended behind a first one
C10_Witness ==
  /\ section = "vault"
  /\ Len(entries.v) = 2
  /\ uuidCount = 2

(***************************************************************************)
(* Vocabulary of the properties about stored texts.                        *)
(***************************************************************************)
IsEntry(e) ==
  /\ e.t = "obj"
  /\ \A key \in {K_id, K_title, K_content} : Prop(e, key).t = "str"

IsEntrySequence(x) == IsArray(x) /\ \A j \in 1..Len(x.v) : IsEntry(x.v[j])

\* the text opens under key to a serialized sequence of entries
OpensToEntries(text, key) ==
  \A r \in { OpenEnvelope(text, key) } : r.ok /\ IsEntrySequence(r.val)

\* the text opens under key (the tag verifies), to any plaintext
Authenticates(text, key) ==
  \A args \in { DecryptArgs(text) } :
    args.ok /\ SubtleDecrypt(key, args.iv, args.ciphertext).ok

\* the stored text the i-th suspended unlock works on
TextRead(i) == IF unlocks[i].pc = "decrypt" THEN unlocks[i].data ELSE lsData

\* the i-th suspended unlock ends in this step
UnlockEnds(i) ==
  /\ Len(unlocks') < Len(unlocks)
  /\ UnlockDerived(i) \/ UnlockDecrypted(i)

\* the IVs getRandomBytes has returned to encrypt so far
DrawnIVs == { getRandomBytes(IV_LENGTH, k) : k \in 1..ivCount }

(***************************************************************************)
(* C11 (SpecStore).  Failure causes are indistinguishable: an unlock that  *)
(* ends with an error shown, from the login section, on a stored non-empty *)
(* text that does not open under the derived key to a sequence of entries  *)
(* (wrong password, text that is not base64, text shorter than an IV,      *)
(* tampered ciphertext, plaintext that does not decode to an entry         *)
(* sequence) shows the one unlock-failure message and leaves the login     *)
(* section shown, the key null and vault.entries empty.                    *)
(***************************************************************************)
C11_SameFailure ==
  [][ \A i \in DOMAIN unlocks :
        ( /\ section = "login"
          /\ UnlockEnds(i)
          /\ ~NoVault(TextRead(i))
          /\ ~OpensToEntries(Get(TextRead(i)), unlocks[i].key)
          /\ loginError' # "" )
        => ( /\ loginError' = MSG_UNLOCK_FAILED
             /\ section' = "login"
             /\ IsNull(cryptoKey')
             /\ JsEq(entries', EmptyEntries) ) ]_vars

(***************************************************************************)
(* C12 (Spec).  Nonce uniqueness: every save that is started carries an IV *)
(* of IV_LENGTH bytes drawn for it, different from every IV drawn before;  *)
(* the IVs of the suspended saves and of the stored envelope are among the *)
(* IVs drawn, so no two envelopes carry the same IV.                       *)
(***************************************************************************)
C12_NonceUnique ==
  [][ /\ Len(saves') > Len(saves)
         => ( /\ Len(saves'[Len(saves')].iv) = IV_LENGTH
              /\ saves'[Len(saves')].iv \notin DrawnIVs
              /\ saves'[Len(saves')].iv \in DrawnIVs' )
      /\ \A j \in DOMAIN saves : saves[j].iv \in DrawnIVs
      /\ ~IsNull(lsData) => DecryptArgs(Get(lsData)).iv \in DrawnIVs ]_vars

\* two saves under one key suspended with different IVs over a stored envelope
C12_Witness ==
  /\ Len(saves) = 2
  /\ saves[1].key = saves[2].key
  /\ saves[1].iv # saves[2].iv
  /\ ~IsNull(lsData)
  /\ DecryptArgs(Get(lsData)).iv \notin {saves[1].iv, saves[2].iv}

(***************************************************************************)
(* C13 (SpecSerial).  Full rewrite: with operations executed one at a      *)
(* time, when the save of an add or a delete completes the stored envelope *)
(* opens under the session key to exactly the current vault.entries.       *)
(***************************************************************************)
C13_StoreInStep ==
  [][ \A i \in DOMAIN saves :
        (Len(saves') < Len(saves) /\ SaveEncrypted(i))
        => ( /\ ~IsNull(cryptoKey')
             /\ ~IsNull(lsData')
             /\ \A text \in { Get(lsData') } :
                  OpensTo(text, Get(cryptoKey'), entries') ) ]_vars

\* two adds and a delete completed: the store opens to the one entry left
C13_Witness ==
  /\ Unlocked
  /\ Idle
  /\ ivCount = 3
  /\ Len(entries.v) = 1
  /\ ~IsNull(lsData)
  /\ OpensTo(Get(lsData), Get(cryptoKey), entries)

(***************************************************************************)
(* C14 (SpecStore).  Malformed payload: when the stored envelope           *)
(* authenticates under the derived key and its plaintext is not a          *)
(* serialized sequence of entries, the unlock shows the unlock-failure     *)
(* message, the login section stays shown, the key is discarded and        *)
(* vault.entries is not set to the decoded value.                          *)
(***************************************************************************)
C14_MalformedRejected ==
  [][ \A i \in DOMAIN unlocks :
        ( /\ section = "login"
          /\ unlocks[i].pc = "decrypt"
          /\ UnlockDecrypted(i)
          /\ Authenticates(Get(unlocks[i].data), unlocks[i].key)
          /\ ~OpensToEntries(Get(unlocks[i].data), unlocks[i].key) )
        => ( /\ loginError' = MSG_UNLOCK_FAILED
             /\ section' = "login"
             /\ IsNull(cryptoKey')
             /\ UNCHANGED entries ) ]_vars

(***************************************************************************)
(* C15 (SpecOpen).  Secrets exist only while unlocked: in every state in   *)
(* which the login section is shown and no unlock is suspended (the        *)
(* initial state, after a lock, after a rejected empty password, after a   *)
(* failed unlock, after an unlock that threw), vault.cryptoKey is null and *)
(* vault.entries is empty.                                                 *)
(***************************************************************************)
C15_LockedHoldsNoSecrets ==
  (section = "login" /\ unlocks = <<>>)
  => (IsNull(cryptoKey) /\ JsEq(entries, EmptyEntries))

\* an unlock that threw, issued after a lock over a stored envelope
C15_Witness ==
  /\ section = "login"
  /\ unlocks = <<>>
  /\ loginError = MSG_UNLOCK_ERROR
  /\ ~IsNull(atLock)
  /\ ~IsNull(lsData)
  /\ IsNull(cryptoKey)

(***************************************************************************)
(* C16 (Spec).  Unlocked implies a valid session key: whenever the vault   *)
(* section is shown and no unlock is suspended, vault.cryptoKey is present *)
(* and, if an envelope is stored, it is a key that opens that envelope.    *)
(***************************************************************************)
C16_UnlockedHasValidKey ==
  (section = "vault" /\ unlocks = <<>>)
  => ( /\ ~IsNull(cryptoKey)
       /\ IsNull(lsData) \/ Authenticates(Get(lsData), Get(cryptoKey)) )

(***************************************************************************)
(* C17 (Spec).  Stored envelope keeps its key: every save that completes   *)
(* over a stored envelope stores an envelope sealed under a key that opens *)
(* the envelope it replaces.                                               *)
(***************************************************************************)
C17_EnvelopeKeepsKey ==
  [][ \A i \in DOMAIN saves :
        (Len(saves') < Len(saves) /\ ~IsNull(lsData) /\ SaveEncrypted(i))
        => Authenticates(Get(lsData), saves[i].key) ]_vars

(***************************************************************************)
(* C18 (Spec).  Lock is sticky: after a lock, as long as no unlock request *)
(* has been issued since, the login section stays shown, the key stays     *)
(* null and vault.entries stays empty.                                     *)
(***************************************************************************)
C18_LockSticky ==
  (~IsNull(atLock) /\ unlockCount = Get(atLock).unlockCount)
  => ( /\ section = "login"
       /\ IsNull(cryptoKey)
       /\ JsEq(entries, EmptyEntries) )

(***************************************************************************)
(* C19 (SpecStore).  Unlock never writes the envelope: no step of          *)
(* handleUnlock (rejected, suspended, resumed, succeeded, failed or ended  *)
(* by an exception) changes the stored envelope; the script changes it     *)
(* only when a save of addEntry or deleteEntry completes.                  *)
(***************************************************************************)
C19_UnlockKeepsEnvelope ==
  [][ /\ \A password \in Passwords : HandleUnlock(password) => UNCHANGED lsData
      /\ \A i \in DOMAIN unlocks :
           (UnlockDerived(i) \/ UnlockDecrypted(i)) => UNCHANGED lsData
      /\ lsData' # lsData
           => \/ \E i \in DOMAIN saves : SaveEncrypted(i)
              \/ \E text \in ForeignTexts : StorageWrite(text) ]_vars

\* two wrong-password attempts in a row over a stored envelope that still
\* opens under the password that sealed it
C19_Witness ==
  /\ section = "login"
  /\ Idle
  /\ loginError = MSG_UNLOCK_FAILED
  /\ unlockCount = 3
  /\ ivCount = 1
  /\ ~IsNull(lsData)
  /\ ~IsNull(atLock)
  /\ Authenticates(Get(lsData), Get(Get(atLock).cryptoKey))

====
